---- MODULE Spec2Model ----
(***************************************************************************)
(* firewall3 (fw3) main.c: the orchestration of start / stop / flush /     *)
(* restart / print over the two address families, the persisted state      *)
(* file and the external rule loaders.                                     *)
(*                                                                         *)
(* One action is one invocation of the fw3 binary (main), executed to its  *)
(* end; ProcessExit discards the per-process memory afterwards.  What      *)
(* survives between invocations is the state file, the rule sets held by   *)
(* the kernel and the kernel's table support.                              *)
(***************************************************************************)
EXTENDS Integers, Sequences, FiniteSets, TLC

\* Bound of the model: copies of one family's rule set the kernel may hold.
MaxCopies == 2

FW3_FAMILY_ANY == "any"
FW3_FAMILY_V4 == "IPv4"
FW3_FAMILY_V6 == "IPv6"

\* families[] without its "(bug)" slot 0: FW3_FAMILY_V4 = 1, FW3_FAMILY_V6 = 2
families == <<FW3_FAMILY_V4, FW3_FAMILY_V6>>

tables == <<"filter", "nat", "mangle", "raw">>

Families == {families[i] : i \in 1..Len(families)}

Tables == {tables[i] : i \in 1..Len(tables)}

\* Table sets the running kernel may support for one family.
TableSupport == {Tables, {"filter", "mangle", "raw"}}

VARIABLES
    record,         \* the state file: [present, mask], mask = families it marks Active
    kernel,         \* kernel[F]: copies of F's rule set installed in the packet filter
    has_table,      \* has_table[F]: tables the kernel supports for F
    unlink_empty,   \* whether writing a record with no family removes the file
    pc,             \* "idle": no fw3 process; "done": main has returned
    cmd,            \* argv[optind] of the current process
    use_family,     \* static use_family
    print_rules,    \* static print_rules
    disable_ipv6,   \* defs->disable_ipv6 of the configuration the process loaded
    sinks,          \* which external commands start, and which exit non-zero
    record0,        \* the state file as it was when the process started
    statefile,      \* the list fw3_read_statefile returned last
    has_flag,       \* state->defaults.has_flag, the LOADED bits
    rv,             \* main's return value
    stop_rv,        \* stop's return value (-1: stop did not run)
    log,            \* the calls with outside effect, in program order
    nopen,          \* Sinks left open
    proc,           \* concurrent invocations: the memory of each process
    at              \* concurrent invocations: where each process stands in main

vars == <<record, kernel, has_table, unlink_empty, pc, cmd, use_family,
          print_rules, disable_ipv6, sinks, record0, statefile, has_flag, rv, stop_rv, log, nopen, proc, at>>

NoStatefile == [present |-> FALSE, mask |-> {}]

----------------------------------------------------------------------------
(* Collaborators outside main.c.  Of the state file only the Defaults entry *)
(* with its two family bits is kept.  Whether a write of no bits leaves an  *)
(* empty record or removes the file is fixed by unlink_empty, either way.   *)

\* fw3_load_defaults: IPv4 is always eligible, IPv6 unless disabled globally
fw3_load_defaults(c) ==
    [c EXCEPT !.has_flag = {FW3_FAMILY_V4} \cup
                           (IF c.disable_ipv6 THEN {} ELSE {FW3_FAMILY_V6})]

\* fw3_read_statefile: NULL (not present) when there is no record
fw3_read_statefile(c) ==
    [c EXCEPT !.statefile = c.record,
              !.log = Append(@, <<"fw3_read_statefile">>)]

\* fw3_write_statefile: serialises the LOADED bits of the in-memory defaults
fw3_write_statefile(c) ==
    [c EXCEPT !.record = IF c.has_flag = {} /\ c.unlink_empty
                         THEN NoStatefile
                         ELSE [present |-> TRUE, mask |-> c.has_flag],
              !.log = Append(@, <<"fw3_write_statefile">>)]

fw3_has_table(c, family, table) == table \in c.has_table[family]

\* fw3_pr and the emitters: one directive written to the open Sink
fw3_pr(c, directive) == [c EXCEPT !.log = Append(@, directive)]

\* a warning on stderr
warn(c, what) == [c EXCEPT !.log = Append(@, <<"warn", what>>)]

\* fw3_command_pipe: fork the external command with a pipe to its stdin
fw3_command_pipe(c, command, ok) ==
    IF ok
    THEN [c EXCEPT !.pipe = command, !.mark = Len(c.log) + 1,
                   !.nopen = @ + 1, !.ret = TRUE,
                   !.log = Append(@, <<"open", command>>)]
    ELSE [c EXCEPT !.ret = FALSE,
                   !.log = Append(@, <<"open_failed", command>>)]

\* fw3_stdout_pipe: the Sink is the process's own stdout
fw3_stdout_pipe(c) ==
    [c EXCEPT !.pipe = "stdout", !.mark = Len(c.log) + 1,
              !.nopen = @ + 1, !.ret = TRUE,
              !.log = Append(@, <<"open", "stdout">>)]

Restore == [f \in Families |->
              IF f = FW3_FAMILY_V4 THEN "iptables-restore" ELSE "ip6tables-restore"]

\* What the batch written to a rule loader does to the kernel's rule sets:
\* removal directives leave none of the family's rules, rule directives
\* (--noflush) add one more copy of them.
Deliver(k, pipe, written) ==
    LET heads == {written[i][1] : i \in 1..Len(written)} IN
    [f \in Families |->
        IF pipe # Restore[f] THEN k[f]
        ELSE IF heads \cap {"fw3_flush_all", "fw3_flush_rules", "fw3_flush_zones"} # {}
        THEN 0
        ELSE IF "fw3_print_rules" \in heads THEN k[f] + 1
        ELSE k[f]]

\* fw3_command_close: close the pipe and wait for the child; its exit status
\* is not returned to the caller
fw3_command_close(c) ==
    [c EXCEPT !.kernel = Deliver(c.kernel, c.pipe,
                                 SubSeq(c.log, c.mark + 1, Len(c.log))),
              !.pipe = "none",
              !.nopen = @ - 1,
              !.log = Append(@, <<"close", c.pipe,
                                  IF c.pipe \in c.close_fail THEN "failed" ELSE "ok">>)]

----------------------------------------------------------------------------
(* main.c *)

restore_pipe(c, family, silent, ok) ==
    IF c.print_rules
    THEN fw3_stdout_pipe(c)
    ELSE LET p == fw3_command_pipe(c, Restore[family], ok) IN
         IF ~p.ret THEN warn(p, "Unable to execute") ELSE p

family_running(sf, family) == sf.present /\ family \in sf.mask

\* as family_used, with the family filter of the command line ignored
family_used_ignores_filter(c, family) == TRUE

family_used(c, family) ==
    (c.use_family = FW3_FAMILY_ANY) \/ (c.use_family = family)

family_loaded(c, family) == family \in c.has_flag

family_set(c, family, set) ==
    [c EXCEPT !.has_flag = IF set THEN @ \cup {family} ELSE @ \ {family},
              !.log = Append(@, <<"family_set", family, IF set THEN "1" ELSE "0">>)]

\* the body of start's table loop
start_table(c, family, table) ==
    IF ~fw3_has_table(c, family, table) THEN c
    ELSE LET c1 == fw3_pr(c, <<"*", table, family>>)
             c2 == fw3_pr(c1, <<"fw3_print_default_chains", table, family>>)
             c3 == fw3_pr(c2, <<"fw3_print_zone_chains", table, family>>)
             c4 == fw3_pr(c3, <<"fw3_print_default_head_rules", table, family>>)
             c5 == fw3_pr(c4, <<"fw3_print_rules", table, family>>)
             c6 == fw3_pr(c5, <<"fw3_print_redirects", table, family>>)
             c7 == fw3_pr(c6, <<"fw3_print_forwards", table, family>>)
             c8 == fw3_pr(c7, <<"fw3_print_zone_rules", table, family>>)
             c9 == fw3_pr(c8, <<"fw3_print_default_tail_rules", table, family>>)
         IN fw3_pr(c9, <<"COMMIT", table, family>>)

\* as start_tables, walking tables[] from its last entry to its first
RECURSIVE start_tables_reversed(_, _, _)
start_tables_reversed(c, family, table) ==
    IF table > Len(tables) THEN c
    ELSE start_tables_reversed(
             start_table(c, family, tables[Len(tables) + 1 - table]),
             family, table + 1)

RECURSIVE start_tables(_, _, _)
start_tables(c, family, table) ==
    IF table > Len(tables) THEN c
    ELSE start_tables(start_table(c, family, tables[table]), family, table + 1)

\* the body of start's family loop
start_family(c, family, restart) ==
    IF ~family_used(c, family) THEN c
    ELSE IF ~family_loaded(c, family) THEN c
    ELSE LET p == restore_pipe(c, family, FALSE, family \in c.start_pipe) IN
         IF ~p.ret THEN p
         ELSE IF ~restart /\ family_running(p.statefile, family)
         THEN warn(p, "appears to be started already")
         ELSE LET c1 == start_tables(p, family, 1)
                  c2 == fw3_command_close(c1)
                  c3 == family_set(c2, family, TRUE)
              IN [c3 EXCEPT !.rv = 0]

RECURSIVE start_families(_, _, _)
start_families(c, family, restart) ==
    IF family > Len(families) THEN c
    ELSE start_families(start_family(c, families[family], restart),
                        family + 1, restart)

start_ipsets(c, restart) ==
    IF ~c.print_rules /\ ~restart
    THEN LET p == fw3_command_pipe(c, "ipset", c.ipset_pipe) IN
         IF p.ret
         THEN fw3_command_close(fw3_pr(p, <<"fw3_create_ipsets">>))
         ELSE p
    ELSE c

start_write(c) == IF c.rv = 0 THEN fw3_write_statefile(c) ELSE c

start(c, restart) ==
    LET c0 == fw3_read_statefile([c EXCEPT !.rv = 1,
                                           !.log = Append(@, <<"start">>)])
        c1 == start_ipsets(c0, restart)
        c2 == start_families(c1, 1, restart)
    IN start_write(c2)

\* as stop_table, with the terminal pass written before the other
stop_table_terminal_first(c, family, table, complete) ==
    IF ~fw3_has_table(c, family, table) THEN c
    ELSE LET c1 == fw3_pr(c, <<"*", table, family>>)
             c2 == IF complete
                   THEN fw3_pr(c1, <<"fw3_flush_all", table, family>>)
                   ELSE LET p1 == fw3_pr(c1, <<"fw3_flush_rules", table, family, "1">>)
                            p2 == fw3_pr(p1, <<"fw3_flush_zones", table, family, "1">>)
                            p3 == fw3_pr(p2, <<"fw3_flush_rules", table, family, "0">>)
                        IN fw3_pr(p3, <<"fw3_flush_zones", table, family, "0">>)
         IN fw3_pr(c2, <<"COMMIT", table, family>>)

\* the body of stop's table loop
stop_table(c, family, table, complete) ==
    IF ~fw3_has_table(c, family, table) THEN c
    ELSE LET c1 == fw3_pr(c, <<"*", table, family>>)
             c2 == IF complete
                   THEN fw3_pr(c1, <<"fw3_flush_all", table, family>>)
                   ELSE LET p1 == fw3_pr(c1, <<"fw3_flush_rules", table, family, "0">>)
                            p2 == fw3_pr(p1, <<"fw3_flush_zones", table, family, "0">>)
                            p3 == fw3_pr(p2, <<"fw3_flush_rules", table, family, "1">>)
                        IN fw3_pr(p3, <<"fw3_flush_zones", table, family, "1">>)
         IN fw3_pr(c2, <<"COMMIT", table, family>>)

RECURSIVE stop_tables(_, _, _, _)
stop_tables(c, family, table, complete) ==
    IF table > Len(tables) THEN c
    ELSE stop_tables(stop_table(c, family, tables[table], complete),
                     family, table + 1, complete)

\* as stop_family, clearing the LOADED bit during a restart too
stop_family_clears_on_restart(c, family, complete, restart) ==
    IF ~complete /\ ~family_running(c.statefile, family) THEN c
    ELSE IF ~family_used(c, family) THEN c
    ELSE LET p == restore_pipe(c, family, TRUE, family \in c.stop_pipe) IN
         IF ~p.ret THEN p
         ELSE LET c1 == stop_tables(p, family, 1, complete)
                  c2 == fw3_command_close(c1)
                  c3 == family_set(c2, family, FALSE)
              IN [c3 EXCEPT !.rv = 0]

\* as stop_family, consulting the state file for flush as well
stop_family_flush_reads_record(c, family, complete, restart) ==
    IF ~family_running(c.statefile, family) THEN c
    ELSE IF ~family_used(c, family) THEN c
    ELSE LET p == restore_pipe(c, family, TRUE, family \in c.stop_pipe) IN
         IF ~p.ret THEN p
         ELSE LET c1 == stop_tables(p, family, 1, complete)
                  c2 == fw3_command_close(c1)
                  c3 == IF ~restart THEN family_set(c2, family, FALSE) ELSE c2
              IN [c3 EXCEPT !.rv = 0]

\* the body of stop's family loop
stop_family(c, family, complete, restart) ==
    IF ~complete /\ ~family_running(c.statefile, family) THEN c
    ELSE IF ~family_used(c, family) THEN c
    ELSE LET p == restore_pipe(c, family, TRUE, family \in c.stop_pipe) IN
         IF ~p.ret THEN p
         ELSE LET c1 == stop_tables(p, family, 1, complete)
                  c2 == fw3_command_close(c1)
                  c3 == IF ~restart THEN family_set(c2, family, FALSE) ELSE c2
              IN [c3 EXCEPT !.rv = 0]

RECURSIVE stop_families(_, _, _, _)
stop_families(c, family, complete, restart) ==
    IF family > Len(families) THEN c
    ELSE stop_families(stop_family(c, families[family], complete, restart),
                       family + 1, complete, restart)

\* as stop_ipsets, without the test that no family is left loaded
stop_ipsets_unguarded(c, restart) ==
    IF ~restart
    THEN LET p == fw3_command_pipe(c, "ipset", c.ipset_pipe) IN
         IF p.ret
         THEN fw3_command_close(fw3_pr(p, <<"fw3_destroy_ipsets">>))
         ELSE p
    ELSE c

stop_ipsets(c, restart) ==
    IF ~restart /\ ~family_loaded(c, FW3_FAMILY_V4)
                /\ ~family_loaded(c, FW3_FAMILY_V6)
    THEN LET p == fw3_command_pipe(c, "ipset", c.ipset_pipe) IN
         IF p.ret
         THEN fw3_command_close(fw3_pr(p, <<"fw3_destroy_ipsets">>))
         ELSE p
    ELSE c

stop_write(c) == IF c.rv = 0 THEN fw3_write_statefile(c) ELSE c

stop(c, complete, restart) ==
    LET c0 == fw3_read_statefile([c EXCEPT !.rv = 1,
                                           !.log = Append(@, <<"stop">>)])
    IN IF ~complete /\ ~c0.statefile.present
       THEN IF ~restart THEN warn(c0, "appears to be stopped") ELSE c0
       ELSE LET c1 == stop_families(c0, 1, complete, restart)
                c2 == stop_ipsets(c1, restart)
            IN stop_write(c2)

lookup_network(c) ==
    IF c.found THEN [c EXCEPT !.rv = 0, !.log = Append(@, <<"printf", "zone">>)]
    ELSE [c EXCEPT !.rv = 1]

lookup_device(c) ==
    IF c.found THEN [c EXCEPT !.rv = 0, !.log = Append(@, <<"printf", "zone">>)]
    ELSE [c EXCEPT !.rv = 1]

usage(c) == [c EXCEPT !.rv = 1, !.log = Append(@, <<"usage">>)]

\* error(): the message, then exit(1) on the spot
error(c, what) ==
    [c EXCEPT !.rv = 1, !.log = Append(@, <<"error", what>>)]

build_state(c) ==
    IF ~c.uci_ok
    THEN [error(c, "Failed to load /etc/config/firewall") EXCEPT !.ret = FALSE]
    ELSE fw3_load_defaults([c EXCEPT !.state = TRUE, !.ret = TRUE,
                                     !.log = Append(@, <<"build_state">>)])

free_state(c) ==
    [c EXCEPT !.state = FALSE, !.log = Append(@, <<"free_state">>)]

fw3_lock(c) ==
    [c EXCEPT !.ret = c.lock_ok,
              !.log = Append(@, <<"fw3_lock", IF c.lock_ok THEN "ok" ELSE "failed">>)]

fw3_unlock(c) == [c EXCEPT !.log = Append(@, <<"fw3_unlock">>)]

\* as out, without the call of fw3_unlock
out_without_unlock(c) == IF c.state THEN free_state(c) ELSE c

\* the label out: of main
out(c) == fw3_unlock(IF c.state THEN free_state(c) ELSE c)

\* as command, with restart calling start(state, true) whatever stop returned
command_restart_unconditional(c) ==
    IF c.cmd = "print"
    THEN start([c EXCEPT !.print_rules = TRUE], FALSE)
    ELSE IF c.cmd = "start" THEN start(c, FALSE)
    ELSE IF c.cmd = "stop" THEN stop(c, FALSE, FALSE)
    ELSE IF c.cmd = "flush" THEN stop(c, TRUE, FALSE)
    ELSE IF c.cmd = "restart"
    THEN LET s == stop(c, FALSE, TRUE) IN
         start([s EXCEPT !.stop_rv = s.rv], TRUE)
    ELSE IF c.cmd = "network" /\ c.arg THEN lookup_network(c)
    ELSE IF c.cmd = "device" /\ c.arg THEN lookup_device(c)
    ELSE usage(c)

\* main's command dispatch, with the lock held
command(c) ==
    IF c.cmd = "print"
    THEN start([c EXCEPT !.print_rules = TRUE], FALSE)
    ELSE IF c.cmd = "start" THEN start(c, FALSE)
    ELSE IF c.cmd = "stop" THEN stop(c, FALSE, FALSE)
    ELSE IF c.cmd = "flush" THEN stop(c, TRUE, FALSE)
    ELSE IF c.cmd = "restart"
    THEN LET s == stop(c, FALSE, TRUE) IN
         start([s EXCEPT !.stop_rv = s.rv], s.rv = 0)
    ELSE IF c.cmd = "network" /\ c.arg THEN lookup_network(c)
    ELSE IF c.cmd = "device" /\ c.arg THEN lookup_device(c)
    ELSE usage(c)

main(c) ==
    IF c.opt_h THEN out(usage(c))
    ELSE IF ~c.ubus_ok THEN error(c, "Failed to connect to ubus")
    ELSE LET s == build_state([c EXCEPT !.log = Append(@, <<"fw3_ubus_connect">>)]) IN
         IF ~s.ret THEN s
         ELSE LET l == fw3_lock(s) IN
              IF ~l.ret THEN out(l)
              ELSE IF c.cmd = "" THEN out(usage(l))
              ELSE LET w == IF c.use_family = FW3_FAMILY_V6 /\ c.disable_ipv6
                            THEN warn(l, "IPv6 rules globally disabled")
                            ELSE l
                   IN out(command(w))

----------------------------------------------------------------------------
(* The invocations *)

\* what the environment decides during one invocation
StartupOk == [ubus_ok |-> TRUE, uci_ok |-> TRUE, lock_ok |-> TRUE]

StartupFailures ==
    {[ubus_ok |-> FALSE, uci_ok |-> TRUE, lock_ok |-> TRUE],
     [ubus_ok |-> TRUE, uci_ok |-> FALSE, lock_ok |-> TRUE],
     [ubus_ok |-> TRUE, uci_ok |-> TRUE, lock_ok |-> FALSE]}

SinksOk == [start_pipe |-> Families, stop_pipe |-> Families,
            ipset_pipe |-> TRUE, close_fail |-> {}]

Sinks(startSets, stopSets) ==
    [start_pipe : startSets, stop_pipe : stopSets,
     ipset_pipe : BOOLEAN, close_fail : SUBSET {Restore[f] : f \in Families}]

\* the process as main finds it
Process(argv, su, sk) ==
    [record |-> record, kernel |-> kernel, has_table |-> has_table,
     unlink_empty |-> unlink_empty,
     cmd |-> argv.cmd, arg |-> argv.arg, opt_h |-> argv.opt_h,
     use_family |-> argv.use_family, disable_ipv6 |-> argv.disable_ipv6,
     found |-> argv.found,
     ubus_ok |-> su.ubus_ok, uci_ok |-> su.uci_ok, lock_ok |-> su.lock_ok,
     start_pipe |-> sk.start_pipe, stop_pipe |-> sk.stop_pipe,
     ipset_pipe |-> sk.ipset_pipe, close_fail |-> sk.close_fail,
     print_rules |-> FALSE, state |-> FALSE, statefile |-> NoStatefile,
     has_flag |-> {}, rv |-> 1, stop_rv |-> -1, log |-> <<>>, nopen |-> 0,
     pipe |-> "none", mark |-> 0, ret |-> FALSE]

Argv(c, fams) ==
    [cmd : {c}, arg : {TRUE}, opt_h : {FALSE}, use_family : fams,
     disable_ipv6 : BOOLEAN, found : {FALSE}]

AnyFamily == {FW3_FAMILY_ANY, FW3_FAMILY_V4, FW3_FAMILY_V6}

Run(c) ==
    /\ pc = "idle"
    /\ \A f \in Families : c.kernel[f] <= MaxCopies
    /\ pc' = "done"
    /\ record' = c.record
    /\ kernel' = c.kernel
    /\ cmd' = c.cmd
    /\ use_family' = c.use_family
    /\ print_rules' = c.print_rules
    /\ disable_ipv6' = c.disable_ipv6
    /\ sinks' = [start_pipe |-> c.start_pipe, stop_pipe |-> c.stop_pipe,
                 ipset_pipe |-> c.ipset_pipe, close_fail |-> c.close_fail]
    /\ record0' = record
    /\ statefile' = c.statefile
    /\ has_flag' = c.has_flag
    /\ rv' = c.rv
    /\ stop_rv' = c.stop_rv
    /\ log' = c.log
    /\ nopen' = c.nopen
    /\ UNCHANGED <<has_table, unlink_empty, proc, at>>

\* the runs of main for one rule command: every family filter and
\* configuration, with the Sinks failing or not, or with a failure at startup
Invocations(name, startSets, stopSets) ==
    {main(Process(a, StartupOk, sk)) :
        a \in Argv(name, AnyFamily), sk \in Sinks(startSets, stopSets)}
    \cup
    {main(Process(a, su, SinksOk)) :
        a \in Argv(name, AnyFamily), su \in StartupFailures}

Fw3Print ==
    /\ pc = "idle"
    /\ \E c \in Invocations("print", {Families}, {Families}) : Run(c)

Fw3Start ==
    /\ pc = "idle"
    /\ \E c \in Invocations("start", SUBSET Families, {Families}) : Run(c)

Fw3Stop ==
    /\ pc = "idle"
    /\ \E c \in Invocations("stop", {Families}, SUBSET Families) : Run(c)

Fw3Flush ==
    /\ pc = "idle"
    /\ \E c \in Invocations("flush", {Families}, SUBSET Families) : Run(c)

Fw3Restart ==
    /\ pc = "idle"
    /\ \E c \in Invocations("restart", SUBSET Families, SUBSET Families) : Run(c)

Fw3Lookup ==
    /\ pc = "idle"
    /\ \E a \in [cmd : {"network", "device"}, arg : BOOLEAN, opt_h : {FALSE},
                  use_family : {FW3_FAMILY_ANY}, disable_ipv6 : {FALSE},
                  found : BOOLEAN] :
        \E c \in {main(Process(a, StartupOk, SinksOk))} : Run(c)

Fw3Usage ==
    /\ pc = "idle"
    /\ \E a \in [cmd : {"", "reload"}, arg : {FALSE}, opt_h : BOOLEAN,
                  use_family : {FW3_FAMILY_ANY}, disable_ipv6 : {FALSE},
                  found : {FALSE}] :
        \E c \in {main(Process(a, StartupOk, SinksOk))} : Run(c)

\* the process ends: its memory is gone, the state file and the kernel stay
ProcessExit ==
    /\ pc = "done"
    /\ pc' = "idle"
    /\ cmd' = ""
    /\ use_family' = FW3_FAMILY_ANY
    /\ print_rules' = FALSE
    /\ disable_ipv6' = FALSE
    /\ sinks' = SinksOk
    /\ record0' = record
    /\ statefile' = NoStatefile
    /\ has_flag' = {}
    /\ rv' = 1
    /\ stop_rv' = -1
    /\ log' = <<>>
    /\ nopen' = 0
    /\ UNCHANGED <<record, kernel, has_table, unlink_empty, proc, at>>

Init ==
    /\ record = NoStatefile
    /\ kernel = [f \in Families |-> 0]
    /\ has_table \in [Families -> TableSupport]
    /\ unlink_empty \in BOOLEAN
    /\ pc = "idle"
    /\ cmd = ""
    /\ use_family = FW3_FAMILY_ANY
    /\ print_rules = FALSE
    /\ disable_ipv6 = FALSE
    /\ sinks = SinksOk
    /\ record0 = NoStatefile
    /\ statefile = NoStatefile
    /\ has_flag = {}
    /\ rv = 1
    /\ stop_rv = -1
    /\ log = <<>>
    /\ nopen = 0
    /\ proc = <<>>
    /\ at = <<>>

Next ==
    \/ Fw3Print
    \/ Fw3Start
    \/ Fw3Stop
    \/ Fw3Flush
    \/ Fw3Restart
    \/ Fw3Lookup
    \/ Fw3Usage
    \/ ProcessExit

Spec == Init /\ [][Next]_vars

TypeOK ==
    /\ record \in [present : BOOLEAN, mask : SUBSET Families]
    /\ kernel \in [Families -> 0..MaxCopies]
    /\ pc \in {"idle", "done"}
    /\ rv \in {0, 1}

----------------------------------------------------------------------------
(* Concurrent invocations.  Each process runs main once; a step is the code *)
(* between two accesses to what the processes share: the lock, the state   *)
(* file and the kernel's rule sets.  The lock is an exclusive lock owned   *)
(* by the process whose fw3_lock returned true, until its fw3_unlock.      *)

Procs == {"hotplug", "manual"}

Goto(c, label) == [c |-> c, at |-> label]

\* main from getopt to build_state
main_startup(c) ==
    IF c.opt_h THEN Goto(usage(c), "out")
    ELSE IF ~c.ubus_ok
    THEN Goto(error(c, "Failed to connect to ubus"), "exit")
    ELSE LET s == build_state([c EXCEPT !.log = Append(@, <<"fw3_ubus_connect">>)]) IN
         IF ~s.ret THEN Goto(s, "exit") ELSE Goto(s, "fw3_lock")

\* as main_lock, going on to the command when fw3_lock failed
main_lock_unchecked(c) ==
    LET l == fw3_lock(c) IN
    IF c.cmd = "" THEN Goto(usage(l), "out")
    ELSE IF c.use_family = FW3_FAMILY_V6 /\ c.disable_ipv6
    THEN Goto(warn(l, "IPv6 rules globally disabled"), "command")
    ELSE Goto(l, "command")

\* main from fw3_lock to the command dispatch
main_lock(c) ==
    LET l == fw3_lock(c) IN
    IF ~l.ret THEN Goto(l, "out")
    ELSE IF c.cmd = "" THEN Goto(usage(l), "out")
    ELSE IF c.use_family = FW3_FAMILY_V6 /\ c.disable_ipv6
    THEN Goto(warn(l, "IPv6 rules globally disabled"), "command")
    ELSE Goto(l, "command")

\* the arguments main passes to stop and to start
stop_complete(c) == c.cmd = "flush"

stop_restart(c) == c.cmd = "restart"

start_restart(c) == c.cmd = "restart" /\ c.stop_rv = 0

\* what follows the return of stop: restart goes on with start
stop_return(c) ==
    IF c.cmd = "restart" THEN Goto([c EXCEPT !.stop_rv = c.rv], "start")
    ELSE Goto(c, "out")

\* stop up to the test of the state file it has read
stop_enter(c) ==
    LET c0 == fw3_read_statefile([c EXCEPT !.rv = 1,
                                           !.log = Append(@, <<"stop">>)])
    IN IF ~stop_complete(c) /\ ~c0.statefile.present
       THEN stop_return(IF ~stop_restart(c)
                        THEN warn(c0, "appears to be stopped") ELSE c0)
       ELSE Goto(c0, "stop_families")

\* start up to the state file read
start_enter(c) ==
    Goto(fw3_read_statefile([c EXCEPT !.rv = 1, !.log = Append(@, <<"start">>)]),
         "start_families")

\* main's command dispatch up to the state file read of the first operation
main_command(c) ==
    IF c.cmd = "print" THEN start_enter([c EXCEPT !.print_rules = TRUE])
    ELSE IF c.cmd = "start" THEN start_enter(c)
    ELSE IF c.cmd \in {"stop", "flush", "restart"} THEN stop_enter(c)
    ELSE Goto(command(c), "out")

\* the family loop of the operation, with what it does about named sets
operation_families(c, label) ==
    IF label = "stop_families"
    THEN Goto(stop_ipsets(stop_families(c, 1, stop_complete(c), stop_restart(c)),
                          stop_restart(c)),
              "stop_write")
    ELSE Goto(start_families(start_ipsets(c, start_restart(c)), 1, start_restart(c)),
              "start_write")

\* the end of the operation: the state file written when rv is 0
operation_write(c, label) ==
    IF label = "stop_write" THEN stop_return(stop_write(c))
    ELSE Goto(start_write(c), "out")

\* main at the label out
main_out(c) == Goto(out(c), "exit")

\* the process holds the lock: its fw3_lock returned true and it has not
\* called fw3_unlock since
Holds(p) ==
    \E i \in 1..Len(proc[p].log) :
        /\ proc[p].log[i] = <<"fw3_lock", "ok">>
        /\ \A j \in (i + 1)..Len(proc[p].log) : proc[p].log[j] # <<"fw3_unlock">>

SeqVars == <<pc, cmd, use_family, print_rules, disable_ipv6, sinks, record0,
             statefile, has_flag, rv, stop_rv, log, nopen>>

NoKernel == [f \in Families |-> 0]

\* process p takes the step r, computed on the state file and the kernel
\* as they are now
Step(p, r) ==
    /\ proc' = [proc EXCEPT ![p] = [r.c EXCEPT !.record = NoStatefile,
                                               !.kernel = NoKernel]]
    /\ at' = [at EXCEPT ![p] = r.at]
    /\ record' = r.c.record
    /\ kernel' = r.c.kernel
    /\ UNCHANGED <<has_table, unlink_empty>>
    /\ UNCHANGED SeqVars

\* the memory of p with the shared state in view
Shared(p) == [proc[p] EXCEPT !.record = record, !.kernel = kernel]

\* the command lines and startup failures of the concurrent invocations
LockArgv ==
    [cmd : {"start", "stop", "flush", "restart"}, arg : {TRUE}, opt_h : {FALSE},
     use_family : AnyFamily, disable_ipv6 : {FALSE}, found : {FALSE}]
    \cup
    [cmd : {""}, arg : {FALSE}, opt_h : BOOLEAN,
     use_family : {FW3_FAMILY_ANY}, disable_ipv6 : {FALSE}, found : {FALSE}]

\* a command line without options or command
NoArgv == [cmd |-> "", arg |-> FALSE, opt_h |-> FALSE,
           use_family |-> FW3_FAMILY_ANY, disable_ipv6 |-> FALSE,
           found |-> FALSE]

Invoke(p) ==
    /\ at[p] = "main"
    /\ \/ \E a \in LockArgv, l \in BOOLEAN :
             Step(p, main_startup(Process(a, [StartupOk EXCEPT !.lock_ok = l],
                                          SinksOk)))
       \/ \E su \in StartupFailures :
             Step(p, main_startup(Process(NoArgv, su, SinksOk)))

\* fw3_lock: it fails when the lock cannot be set up, else it waits for the
\* lock to be free
Lock(p) ==
    /\ at[p] = "fw3_lock"
    /\ proc[p].lock_ok => \A q \in Procs : ~Holds(q)
    /\ Step(p, main_lock(Shared(p)))

Command(p) ==
    \/ /\ at[p] = "command"
       /\ Step(p, main_command(Shared(p)))
    \/ /\ at[p] = "start"
       /\ Step(p, start_enter(Shared(p)))

FamilyLoop(p) ==
    /\ at[p] \in {"stop_families", "start_families"}
    /\ Step(p, operation_families(Shared(p), at[p]))

WriteState(p) ==
    /\ at[p] \in {"stop_write", "start_write"}
    /\ Step(p, operation_write(Shared(p), at[p]))

Out(p) ==
    /\ at[p] = "out"
    /\ Step(p, main_out(Shared(p)))

\* A process that was started runs on: it is scheduled, and the family
\* loop, two families of four tables with one child process each, ends.
Running(p) ==
    /\ WF_vars(Lock(p))
    /\ WF_vars(Command(p))
    /\ []<>(at[p] \notin {"stop_families", "start_families"})
    /\ WF_vars(WriteState(p))
    /\ WF_vars(Out(p))

LockInit ==
    /\ \/ record = NoStatefile /\ kernel = NoKernel
       \/ /\ record = [present |-> TRUE, mask |-> Families]
          /\ kernel = [f \in Families |-> 1]
    /\ has_table = [f \in Families |-> Tables]
    /\ unlink_empty = TRUE
    /\ pc = "idle"
    /\ cmd = ""
    /\ use_family = FW3_FAMILY_ANY
    /\ print_rules = FALSE
    /\ disable_ipv6 = FALSE
    /\ sinks = SinksOk
    /\ record0 = NoStatefile
    /\ statefile = NoStatefile
    /\ has_flag = {}
    /\ rv = 1
    /\ stop_rv = -1
    /\ log = <<>>
    /\ nopen = 0
    /\ proc = [p \in Procs |-> Process(NoArgv, StartupOk, SinksOk)]
    /\ at = [p \in Procs |-> "main"]

LockNext ==
    \E p \in Procs :
        \/ Invoke(p)
        \/ Lock(p)
        \/ Command(p)
        \/ FamilyLoop(p)
        \/ WriteState(p)
        \/ Out(p)

LockSpec ==
    /\ LockInit
    /\ [][LockNext]_vars
    /\ \A p \in Procs : Running(p)

----------------------------------------------------------------------------
(* Reading the log of the process that has just returned *)

Has(e) == \E i \in 1..Len(log) : log[i] = e

Count(e) == Cardinality({i \in 1..Len(log) : log[i] = e})

Heads == {log[i][1] : i \in 1..Len(log)}

\* main got as far as its command dispatch with this command name
Ran(name) == pc = "done" /\ cmd = name /\ Has(<<"fw3_lock", "ok">>)

Other(f) == IF f = FW3_FAMILY_V4 THEN FW3_FAMILY_V6 ELSE FW3_FAMILY_V4

Selected(f) == use_family = FW3_FAMILY_ANY \/ use_family = f

Active(rec, f) == rec.present /\ f \in rec.mask

RuleLoaders == {Restore[f] : f \in Families}

\* an external process was started as a Sink
ExternalSinkOpened ==
    \E i \in 1..Len(log) :
        log[i][1] = "open" /\ log[i][2] \in RuleLoaders \cup {"ipset"}

----------------------------------------------------------------------------
(* C1 *)

\* C1: no start batch is delivered for a family whose rules the kernel
\* already holds: the kernel never holds two copies of a family's rule set.
NoDuplicateInsertion == \A f \in Families : kernel[f] <= 1

----------------------------------------------------------------------------
(* C2 *)

\* C2: in start, a family's LOADED bit is set, and the family counts toward
\* rv = 0, only after its Sink was opened, written and closed with success.
BitSetOnlyAfterSuccessfulClose ==
    (pc = "done" /\ cmd \in {"start", "restart", "print"}) =>
        /\ \A i \in 1..Len(log), f \in Families :
              log[i] = <<"family_set", f, "1">> =>
                  /\ i > 1
                  /\ log[i - 1][1] = "close"
                  /\ log[i - 1][3] = "ok"
                  /\ \E j \in 1..(i - 1) :
                        /\ log[j][1] = "open"
                        /\ log[j][2] = log[i - 1][2]
                        /\ \A t \in has_table[f] :
                              \E k \in (j + 1)..(i - 2) : log[k] = <<"COMMIT", t, f>>
        /\ (Has(<<"start">>) /\ rv = 0) =>
              \E i \in 1..Len(log) :
                  log[i][1] = "close" /\ log[i][2] # "ipset" /\ log[i][3] = "ok"

----------------------------------------------------------------------------
(* C3 *)

\* C3: after a completed start, stop, restart or flush the state file marks
\* a family Active only if the kernel holds that family's rules.
RecordedOnlyIfApplied ==
    (pc = "done" /\ cmd \in {"start", "stop", "restart", "flush"}) =>
        \A f \in Families : Active(record, f) => kernel[f] >= 1

----------------------------------------------------------------------------
(* C4 *)

\* C4: after a successful start restricted to F the state file marks F
\* Active and the other family's bit is what it was before the run.
StartFrame ==
    \A f \in Families :
        (Ran("start") /\ use_family = f /\ rv = 0) =>
            /\ Active(record, f)
            /\ Active(record, Other(f)) = Active(record0, Other(f))

----------------------------------------------------------------------------
(* C5 *)

\* C5: the state file is written only after an operation returned success,
\* and a run that fails as a whole never clears the Active bit of a family
\* it did not touch (a family outside the family filter whose rules the
\* kernel holds).
FailedRunKeepsRecord ==
    (pc = "done" /\ cmd \in {"start", "stop", "restart", "flush"}) =>
        /\ Has(<<"fw3_write_statefile">>) => (rv = 0 \/ stop_rv = 0)
        /\ rv = 1 =>
              \A f \in Families :
                  (~Selected(f) /\ Active(record0, f) /\ kernel[f] >= 1)
                      => Active(record, f)

----------------------------------------------------------------------------
(* C6 *)

\* C6: a print run starts no external process as a Sink and does not write
\* the state file.
PrintTouchesNothing ==
    (pc = "done" /\ cmd = "print") =>
        /\ ~ExternalSinkOpened
        /\ ~Has(<<"fw3_write_statefile">>)
        /\ record = record0

----------------------------------------------------------------------------
(* C7 *)

Directives == {"*", "COMMIT", "fw3_flush_all", "fw3_flush_rules",
               "fw3_flush_zones", "fw3_print_default_chains",
               "fw3_print_zone_chains", "fw3_print_default_head_rules",
               "fw3_print_rules", "fw3_print_redirects", "fw3_print_forwards",
               "fw3_print_zone_rules", "fw3_print_default_tail_rules",
               "fw3_create_ipsets", "fw3_destroy_ipsets"}

\* C7: stop (complete = false) on an absent or empty state file opens no
\* Sink, writes no directive, does not write the state file and returns 1;
\* the absent file is no error.
StopOnEmptyRecord ==
    (Ran("stop") /\ record0.mask = {}) =>
        /\ Heads \cap {"open", "open_failed"} = {}
        /\ Heads \cap Directives = {}
        /\ ~Has(<<"fw3_write_statefile">>)
        /\ record = record0
        /\ "error" \notin Heads
        /\ rv = 1

StopOnAbsentRecordSeen ==
    /\ Ran("stop")
    /\ ~record0.present
    /\ Has(<<"warn", "appears to be stopped">>)
    /\ rv = 1

StopOnEmptyRecordSeen ==
    /\ Ran("stop")
    /\ record0.present
    /\ record0.mask = {}
    /\ rv = 1

----------------------------------------------------------------------------
(* C8 *)

\* the state file marks only the other family Active and stop is restricted to f
StopOfInactiveFamily(f) ==
    /\ Ran("stop")
    /\ use_family = f
    /\ record0.present
    /\ record0.mask = {Other(f)}

StopOfInactiveFamilyQuiet ==
    /\ Heads \cap {"open", "open_failed"} = {}
    /\ Heads \cap Directives = {}
    /\ ~Has(<<"fw3_write_statefile">>)
    /\ record = record0
    /\ rv = 1

\* C8 as stated: the state file marks only the other family Active; stop
\* restricted to f emits nothing, returns 1 with a warning, and leaves the
\* other family alone.
StopOfInactiveFamilyWarns ==
    \A f \in Families :
        (StopOfInactiveFamily(f) /\ kernel[Other(f)] = 1 /\ kernel[f] = 0) =>
            (StopOfInactiveFamilyQuiet /\ "warn" \in Heads)

\* C8 amended: the same, but stop gives no warning on this path: the only
\* warning of the run is main's, for -6 with IPv6 disabled.
StopOfInactiveFamilySilent ==
    \A f \in Families :
        StopOfInactiveFamily(f) =>
            /\ StopOfInactiveFamilyQuiet
            /\ \A i \in 1..Len(log) :
                  log[i][1] = "warn" =>
                      /\ log[i] = <<"warn", "IPv6 rules globally disabled">>
                      /\ f = FW3_FAMILY_V6
                      /\ disable_ipv6

StopOfInactiveFamilySeen ==
    /\ StopOfInactiveFamily(FW3_FAMILY_V4)
    /\ kernel[FW3_FAMILY_V6] = 1
    /\ kernel[FW3_FAMILY_V4] = 0
    /\ rv = 1

----------------------------------------------------------------------------
(* C9 *)

\* the same invocation, but as start on a system that is stopped
StartOnStopped ==
    main([Process([cmd |-> "start", arg |-> TRUE, opt_h |-> FALSE,
                   use_family |-> use_family, disable_ipv6 |-> disable_ipv6,
                   found |-> FALSE],
                  StartupOk, sinks)
          EXCEPT !.record = NoStatefile,
                 !.kernel = [f \in Families |-> 0]])

ActiveSet(rec) == IF rec.present THEN rec.mask ELSE {}

\* C9 as stated: the state file after any restart marks the families that
\* it marks after start on a stopped system with the same family filter,
\* configuration and Sink behaviour.
RestartLikeStart ==
    Ran("restart") => ActiveSet(record) = ActiveSet(StartOnStopped.record)

\* C9 amended: the same, for a restart whose start reports success.
SuccessfulRestartLikeStart ==
    (Ran("restart") /\ rv = 0) =>
        ActiveSet(record) = ActiveSet(StartOnStopped.record)

SuccessfulRestartSeen ==
    /\ Ran("restart")
    /\ rv = 0
    /\ stop_rv = 0
    /\ use_family = FW3_FAMILY_V4
    /\ record0.mask = {FW3_FAMILY_V4}
    /\ ActiveSet(record) # record0.mask

----------------------------------------------------------------------------
(* C10 *)

SinkOpenedFor(f) == Has(<<"open", Restore[f]>>)

\* C10 as stated: flush writes exactly one fw3_flush_all per supported table
\* of every selected family, whatever the state file holds, and no two-pass
\* removal directive.
FlushWipesEverySelectedFamily ==
    Ran("flush") =>
        /\ \A f \in Families, t \in Tables :
              Count(<<"fw3_flush_all", t, f>>) =
                  IF Selected(f) /\ t \in has_table[f] THEN 1 ELSE 0
        /\ Heads \cap {"fw3_flush_rules", "fw3_flush_zones"} = {}

\* C10 amended: the same for every selected family whose rule loader could
\* be started; a selected family whose Sink fails to open gets no directive.
FlushWipesEveryOpenedFamily ==
    Ran("flush") =>
        /\ \A f \in Families, t \in Tables :
              Count(<<"fw3_flush_all", t, f>>) =
                  IF Selected(f) /\ f \in sinks.stop_pipe /\ t \in has_table[f]
                  THEN 1 ELSE 0
        /\ \A f \in Families :
              SinkOpenedFor(f) = (Selected(f) /\ f \in sinks.stop_pipe)
        /\ Heads \cap {"fw3_flush_rules", "fw3_flush_zones"} = {}

FlushOnAbsentRecordSeen ==
    /\ Ran("flush")
    /\ ~record0.present
    /\ use_family = FW3_FAMILY_ANY
    /\ sinks.stop_pipe = Families
    /\ has_table[FW3_FAMILY_V6] # Tables
    /\ Count(<<"fw3_flush_all", "raw", FW3_FAMILY_V6>>) = 1
    /\ rv = 0

----------------------------------------------------------------------------
(* C11 *)

\* the log from the entry into start on
StartAt == CHOOSE i \in 1..Len(log) : log[i] = <<"start">>

PrintEmitters == {"fw3_print_default_chains", "fw3_print_zone_chains",
                  "fw3_print_default_head_rules", "fw3_print_rules",
                  "fw3_print_redirects", "fw3_print_forwards",
                  "fw3_print_zone_rules", "fw3_print_default_tail_rules"}

\* the family a logged event of start belongs to, "none" for the others
EventFamily(e) ==
    IF e[1] \in {"*", "COMMIT"} \cup PrintEmitters THEN e[3]
    ELSE IF e[1] \in {"open", "close"} /\ e[2] \in RuleLoaders
    THEN CHOOSE f \in Families : Restore[f] = e[2]
    ELSE "none"

\* positions in start's part of the log of the output for family f
StartOutput(f) == {i \in StartAt..Len(log) : EventFamily(log[i]) = f}

\* the tables start selected for family f, in the order of the log
TableSelects(f) ==
    LET s == SelectSeq(SubSeq(log, StartAt, Len(log)),
                       LAMBDA e : e[1] = "*" /\ e[3] = f)
    IN [i \in 1..Len(s) |-> s[i][2]]

\* the tables of tables[] the kernel supports for family f, in that order
Supported(f) == SelectSeq(tables, LAMBDA t : t \in has_table[f])

\* start wrote a batch for family f
StartApplied(f) ==
    \E i \in StartAt..Len(log) : log[i] = <<"family_set", f, "1">>

\* C11: after a successful start (as start, print or the second half of
\* restart) the table-select directives written for a family start handled
\* are the supported tables in the order filter, nat, mangle, raw, each
\* once; a family start did not handle got none; and every event of the
\* IPv4 output precedes every event of the IPv6 output.
TableEmissionOrder ==
    (pc = "done" /\ Has(<<"start">>) /\ rv = 0) =>
        /\ \A f \in Families :
              TableSelects(f) = IF StartApplied(f) THEN Supported(f) ELSE <<>>
        /\ \A i \in StartOutput(FW3_FAMILY_V4) :
              \A j \in StartOutput(FW3_FAMILY_V6) : i < j

TableEmissionOrderSeen ==
    /\ Ran("start")
    /\ rv = 0
    /\ TableSelects(FW3_FAMILY_V4) = <<"filter", "mangle", "raw">>
    /\ TableSelects(FW3_FAMILY_V6) = <<"filter", "nat", "mangle", "raw">>

----------------------------------------------------------------------------
(* C12 *)

\* the last position of the log stop wrote: restart's start follows it
StopEnd == IF Has(<<"start">>) THEN StartAt - 1 ELSE Len(log)

\* positions of the log at which stop selected table t of family f
StopSelects(t, f) == {i \in 1..StopEnd : log[i] = <<"*", t, f>>}

\* the position, i or before, of the table-select that opened the section of
\* the batch position i lies in
SectionStart(i) ==
    CHOOSE j \in 1..i :
        log[j][1] = "*" /\ \A k \in (j + 1)..i : log[k][1] # "*"

\* C12: in a stop that is not complete (stop, or the first half of
\* restart), a table T is selected at most once for a family, and T's
\* table-select is followed by exactly: rule removal and zone removal of the
\* first pass, rule removal and zone removal of the terminal pass, T's
\* COMMIT; no removal call stands anywhere else.
TwoPassOrder ==
    (pc = "done" /\ cmd \in {"stop", "restart"}) =>
        \A n \in {StopEnd} :
            /\ \A f \in Families, t \in Tables :
                  Cardinality(StopSelects(t, f)) <= 1
            /\ \A i \in 1..n :
                  /\ log[i][1] = "*" =>
                        /\ i + 5 <= n
                        /\ \A t \in {log[i][2]}, f \in {log[i][3]} :
                              /\ log[i + 1] = <<"fw3_flush_rules", t, f, "0">>
                              /\ log[i + 2] = <<"fw3_flush_zones", t, f, "0">>
                              /\ log[i + 3] = <<"fw3_flush_rules", t, f, "1">>
                              /\ log[i + 4] = <<"fw3_flush_zones", t, f, "1">>
                              /\ log[i + 5] = <<"COMMIT", t, f>>
                  /\ log[i][1] \in {"fw3_flush_rules", "fw3_flush_zones", "COMMIT"} =>
                        /\ \E j \in 1..i : log[j][1] = "*"
                        /\ i - SectionStart(i) <= 5
                        /\ log[i][2] = log[SectionStart(i)][2]
                        /\ log[i][3] = log[SectionStart(i)][3]
                  /\ log[i][1] # "fw3_flush_all"

TwoPassOrderSeen ==
    /\ Ran("stop")
    /\ rv = 0
    /\ use_family = FW3_FAMILY_ANY
    /\ StopSelects("nat", FW3_FAMILY_V4) # {}
    /\ StopSelects("raw", FW3_FAMILY_V6) # {}
    /\ Has(<<"fw3_flush_zones", "nat", FW3_FAMILY_V4, "1">>)

----------------------------------------------------------------------------
(* C13 *)

\* events that load the configuration or change state outside the process
LoadsAndMutations == {"build_state", "open", "fw3_write_statefile", "family_set"}

\* C13: in every run fw3_lock is called before the configuration is loaded
\* and before any state is changed, and a run whose fw3_lock fails opens no
\* Sink and does not write the state file.
LockBeforeConfigurationLoad ==
    pc = "done" =>
        /\ \A i \in 1..Len(log) :
              log[i][1] \in LoadsAndMutations =>
                  \E j \in 1..(i - 1) : log[j][1] = "fw3_lock"
        /\ Has(<<"fw3_lock", "failed">>) =>
              /\ Heads \cap {"open", "open_failed", "fw3_write_statefile"} = {}
              /\ Heads \cap Directives = {}
              /\ record = record0

----------------------------------------------------------------------------
(* C14 *)

\* process p logged the event e
Logged(p, e) == \E i \in 1..Len(proc[p].log) : proc[p].log[i] = e

\* process p left through error(): exit(1) on the spot
Died(p) == \E i \in 1..Len(proc[p].log) : proc[p].log[i][1] = "error"

\* process p is in fw3_lock, and the lock can be set up
Waiting(p) == at[p] = "fw3_lock" /\ proc[p].lock_ok

----------------------------------------------------------------------------
(* C15 *)

\* between fw3_lock and the label out: the command is running
InCommand(p) ==
    at[p] \in {"command", "start", "stop_families", "start_families",
               "stop_write", "start_write"}

\* between the state file read of an operation and its write
InReadModifyWrite(p) ==
    at[p] \in {"stop_families", "start_families", "stop_write", "start_write"}

----------------------------------------------------------------------------
(* C16 *)

\* where the last operation of the run starts in the log
OperationAt == IF cmd = "restart" /\ Has(<<"start">>) THEN StartAt ELSE 1

\* the last operation tried to open the rule loader of family f and failed
OpenFailed(f) ==
    \E i \in OperationAt..Len(log) : log[i] = <<"open_failed", Restore[f]>>

\* the last operation went through its table loop for f and closed the Sink
Completed(f) ==
    \E i \in OperationAt..Len(log) :
        log[i][1] = "close" /\ log[i][2] = Restore[f]

\* the same, and the rule loader reported success
Succeeded(f) ==
    \E i \in OperationAt..Len(log) : log[i] = <<"close", Restore[f], "ok">>

\* a Sink failed to open, the family got no directive, and the operation
\* went on to the other family
SkippedOnOpenFailure ==
    \A f \in Families :
        OpenFailed(f) =>
            /\ \A i \in OperationAt..Len(log) :
                  log[i][1] \in Directives \ {"fw3_create_ipsets", "fw3_destroy_ipsets"}
                      => log[i][3] # f
            /\ (use_family = FW3_FAMILY_ANY /\ Other(f) \in sinks.start_pipe
                   /\ Other(f) \in sinks.stop_pipe /\ ~disable_ipv6
                   /\ cmd = "flush")
                  => Completed(Other(f))

\* the result of the operation is success exactly when a family completed
ResultIffCompleted == (rv = 0) <=> (\E f \in Families : Completed(f))

\* C16: in start, stop, flush and restart a family whose Sink fails to open
\* gets no directive and the other family is still processed; the operation
\* returns 0 exactly when a family completed; and main returns 0 exactly
\* when the rule loader of at least one family took its batch with success.
ExitCodeCountsSucceededFamilies ==
    (pc = "done" /\ cmd \in {"start", "stop", "flush", "restart"}
                 /\ Has(<<"fw3_lock", "ok">>)) =>
        /\ SkippedOnOpenFailure
        /\ ResultIffCompleted
        /\ (rv = 0) <=> (\E f \in Families : Succeeded(f))

----------------------------------------------------------------------------
(* C17 *)

\* restart ran stop and then start, once each
StopThenStart ==
    /\ Count(<<"stop">>) = 1
    /\ Count(<<"start">>) = 1
    /\ \E i \in 1..(StartAt - 1) : log[i] = <<"stop">>
    /\ stop_rv \in {0, 1}

\* start applied the test for a family that is started already: no family
\* the state file it read marks Active got a batch
GuardApplied == \A f \in Families : Active(statefile, f) => ~StartApplied(f)

\* start skipped no family as started already: every selected, eligible
\* family whose Sink opened got its batch
GuardDropped ==
    /\ ~Has(<<"warn", "appears to be started already">>)
    /\ \A f \in Families :
          (Selected(f) /\ f \in has_flag /\ f \in sinks.start_pipe)
              => StartApplied(f)

\* start went for the Sink of the named sets
StartTriedNamedSets ==
    \E i \in StartAt..Len(log) :
        log[i][1] \in {"open", "open_failed"} /\ log[i][2] = "ipset"

\* the process as main has it at the command dispatch
AtDispatch ==
    Process([cmd |-> cmd, arg |-> TRUE, opt_h |-> FALSE,
             use_family |-> use_family, disable_ipv6 |-> disable_ipv6,
             found |-> FALSE],
            StartupOk, sinks)

\* C17 as stated: restart runs stop and then start whatever stop returned;
\* start applies the started-already test when stop failed and drops it
\* when stop succeeded; and the flag start gets makes no other difference:
\* what start does about the named sets is the same with either value.
RestartFlagOnlyGuards ==
    Ran("restart") =>
        /\ StopThenStart
        /\ stop_rv # 0 => GuardApplied
        /\ stop_rv = 0 => GuardDropped
        /\ start_ipsets(AtDispatch, TRUE).log = start_ipsets(AtDispatch, FALSE).log

\* C17 amended: restart runs stop and then start whatever stop returned;
\* when stop failed, start applies the started-already test and goes for the
\* named sets; when stop succeeded, start drops the test and leaves the
\* named sets alone.
RestartFlagGuardsAndNamedSets ==
    Ran("restart") =>
        /\ StopThenStart
        /\ stop_rv # 0 => (GuardApplied /\ StartTriedNamedSets)
        /\ stop_rv = 0 => (GuardDropped /\ ~StartTriedNamedSets)

\* stop failed with both families recorded Active, and start skipped both
RestartAfterFailedStopSeen ==
    /\ Ran("restart")
    /\ stop_rv = 1
    /\ record0.present
    /\ record0.mask = Families
    /\ Count(<<"warn", "appears to be started already">>) = 2
    /\ Has(<<"fw3_create_ipsets">>)
    /\ rv = 1

----------------------------------------------------------------------------
(* C18 *)

\* positions of the log at which the named sets were destroyed
Destroys == {i \in 1..Len(log) : log[i] = <<"fw3_destroy_ipsets">>}

\* every event of a family's Sink or batch precedes position i
AfterBothFamilies(i) ==
    \A j \in 1..Len(log) :
        (log[j][1] \in {"*", "COMMIT", "family_set"}
            \/ (log[j][1] \in {"open", "open_failed", "close"}
                   /\ log[j][2] \in RuleLoaders))
        => j < i

\* a family the state file marked Active before the run, whose rules are
\* still in the kernel after it
StillActive(f) == Active(record0, f) /\ kernel[f] >= 1

NamedSetsDestroyedLast ==
    /\ Cardinality(Destroys) <= 1
    /\ \A i \in Destroys : AfterBothFamilies(i)
    /\ cmd = "restart" => Destroys = {}

\* C18: stop and flush destroy the named sets at most once per run, after
\* both families were dealt with, never in a restart, and only when no
\* family remains Active: not while the state file the run found marks a
\* family Active that the run left in the kernel.
NamedSetsOutliveNoFamily ==
    (pc = "done" /\ cmd \in {"stop", "flush", "restart"}) =>
        /\ NamedSetsDestroyedLast
        /\ Destroys # {} => \A f \in Families : ~StillActive(f)

----------------------------------------------------------------------------
(* C19 *)

\* C19: every Sink start or stop opened is closed before the next Sink is
\* opened and before the operation returns, so that at most one Sink is
\* open at any time and none is left open at the end of the run.  (Stated
\* for the runs whose Sinks are external processes.)
EverySinkClosed ==
    (pc = "done" /\ cmd # "print") =>
        /\ nopen = 0
        /\ \A i \in 1..Len(log) :
              log[i][1] = "open" =>
                  \E j \in (i + 1)..Len(log) :
                      /\ log[j][1] = "close"
                      /\ log[j][2] = log[i][2]
                      /\ \A k \in (i + 1)..(j - 1) : log[k][1] # "open"

----------------------------------------------------------------------------
(* C20 *)

\* C20: after a successful stop or flush restricted to F the state file
\* marks F not Active and the other family's bit is what it was before the
\* run.
StopFrame ==
    \A f \in Families :
        (pc = "done" /\ cmd \in {"stop", "flush"} /\ use_family = f /\ rv = 0) =>
            /\ ~Active(record, f)
            /\ Active(record, Other(f)) = Active(record0, Other(f))

====
